---- MODULE Spec2Model ----
(***************************************************************************)
(* Session orchestration core of amplifier-app-webamp:                     *)
(*   src/src/python/amplifier_browser.py       ("browser")                 *)
(*     ContextManager, HookRegistry, AmplifierBrowserSession               *)
(*   src/src/python/amplifier_browser_shim.py  ("shim")                    *)
(*     SimpleContextManager, BrowserAmplifierSession                       *)
(*                                                                         *)
(* The variable cls says which of the two modules the object under         *)
(* verification was constructed from.  SpecContext drives a context        *)
(* manager directly; Spec drives a session, one execute() at a time.       *)
(***************************************************************************)
EXTENDS Integers, Sequences, FiniteSets, TLC

VARIABLES
    cls,             \* "browser" | "shim": the module the object comes from
    max_history,     \* ContextManager.max_history
    _history,        \* ContextManager._history
    _max_messages,   \* SimpleContextManager._max_messages
    _messages,       \* SimpleContextManager._messages
    _system_prompt,  \* SimpleContextManager._system_prompt
    _hooks,          \* session.hooks: hook type -> registered callbacks, in order
    system_prompt,   \* session.system_prompt
    history,         \* AmplifierBrowserSession.history (list for the host)
    _initialized,    \* BrowserAmplifierSession._initialized
    call,            \* the execute() calls: position, locals and observations
    nexec,           \* number of execute() calls started
    added,           \* observation: messages added to the context since the last clear
    ret              \* observation: what the last context-manager call returned

vars == <<cls, max_history, _history, _max_messages, _messages, _system_prompt,
          _hooks, system_prompt, history, _initialized, call, nexec, added, ret>>

-----------------------------------------------------------------------------
(* Bounds of the model *)

\* largest bound a directly constructed context manager is given
MaxBound == 2
\* a directly driven context manager receives at most this many add_message calls
MaxAdds == 3
\* the bound of a session's context manager: the defaults (50 in the browser
\* module, 100 in the shim) scaled down so that trimming happens within a run
SessionBound == 3
\* a session runs at most this many execute() calls
MaxExecutes == 2
\* at most this many callbacks are registered on a session
MaxHooks == 2
\* at most this many on a session whose execute() calls may interleave
MaxInterleavedHooks == 1

-----------------------------------------------------------------------------
(* Values *)

ROLE_SYSTEM == "system"
ROLE_USER == "user"
ROLE_ASSISTANT == "assistant"
Roles == {ROLE_SYSTEM, ROLE_USER, ROLE_ASSISTANT}

\* Python's None
None == "<None>"

\* Python truthiness of an optional string: None and "" are false
Truthy(s) == s # None /\ s # ""

Message(role, content) == [role |-> role, content |-> content]

Contents == {"a", "b"}
Messages == {Message(r, c) : r \in Roles, c \in Contents}

\* arguments given for an explicit / default system directive
Directives == {None, "", "p", "d"}

DEFAULT_SYSTEM_PROMPT == "default"

IsSystem(m) == m.role = ROLE_SYSTEM
NotSystem(m) == m.role # ROLE_SYSTEM

\* Python's s[start:] for any integer start (a negative start counts from the end)
PySliceFrom(s, start) ==
    LET n == Len(s)
        lo == IF start < 0
              THEN (IF n + start < 0 THEN 0 ELSE n + start)
              ELSE (IF start > n THEN n ELSE start)
    IN  SubSeq(s, lo + 1, n)

\* Python's s[:stop] for any integer stop
PySliceTo(s, stop) ==
    LET n == Len(s)
        hi == IF stop < 0
              THEN (IF n + stop < 0 THEN 0 ELSE n + stop)
              ELSE (IF stop > n THEN n ELSE stop)
    IN  SubSeq(s, 1, hi)

-----------------------------------------------------------------------------
(* ContextManager (browser) *)

\* faulty variant: the trim keeps the oldest entries instead of the newest
ContextManager_add_message_keep_oldest(h, max, m) ==
    LET a == Append(h, m)
    IN  IF Len(a) > max THEN PySliceTo(a, max) ELSE a

\* self._history.append(message); if len > max: self._history = self._history[-max:]
ContextManager_add_message(h, max, m) ==
    LET a == Append(h, m)
    IN  IF Len(a) > max THEN PySliceFrom(a, 0 - max) ELSE a

ContextManager_get_messages(h, p) ==
    (IF Truthy(p) THEN <<Message(ROLE_SYSTEM, p)>> ELSE <<>>) \o h

ContextManager_clear == <<>>

-----------------------------------------------------------------------------
(* SimpleContextManager (shim) *)

\* faulty variant: the trim keeps the oldest non-system entries instead of the newest
SimpleContextManager_add_message_keep_oldest(msgs, max, m) ==
    LET a == Append(msgs, m)
    IN  IF Len(a) > max
        THEN LET system_msgs == SelectSeq(a, IsSystem)
                 other_msgs == SelectSeq(a, NotSystem)
                 keep_count == max - Len(system_msgs)
             IN  system_msgs \o PySliceTo(other_msgs, keep_count)
        ELSE a

SimpleContextManager_add_message(msgs, max, m) ==
    LET a == Append(msgs, m)
    IN  IF Len(a) > max
        THEN LET system_msgs == SelectSeq(a, IsSystem)
                 other_msgs == SelectSeq(a, NotSystem)
                 keep_count == max - Len(system_msgs)
             IN  system_msgs \o PySliceFrom(other_msgs, 0 - keep_count)
        ELSE a

\* faulty variant: the stored default wins over the explicit argument
SimpleContextManager_get_messages_for_request_default_first(msgs, default, p) ==
    (IF Truthy(default) THEN <<Message(ROLE_SYSTEM, default)>>
     ELSE IF Truthy(p) THEN <<Message(ROLE_SYSTEM, p)>>
     ELSE <<>>)
    \o SelectSeq(msgs, NotSystem)

SimpleContextManager_get_messages_for_request(msgs, default, p) ==
    (IF Truthy(p) THEN <<Message(ROLE_SYSTEM, p)>>
     ELSE IF Truthy(default) THEN <<Message(ROLE_SYSTEM, default)>>
     ELSE <<>>)
    \o SelectSeq(msgs, NotSystem)

\* faulty variant: clear() keeps the system-role entries
SimpleContextManager_clear_keeps_system == SelectSeq(_messages, IsSystem)

SimpleContextManager_clear == <<>>

-----------------------------------------------------------------------------
(* Observations *)

\* nothing returned yet, or the last call returned nothing
NoRet == [op |-> "none", arg |-> None, default |-> None, value |-> <<>>]

\* the stored history of the context manager under verification
Stored == IF cls = "browser" THEN _history ELSE _messages

\* the default directive in force: the shim's context manager stores one, the
\* browser module's session passes its own to get_messages
Directive == IF cls = "browser" THEN system_prompt ELSE _system_prompt

\* the last call was a clear: the directive in force and the history it met
ClearRet == [op |-> "clear", arg |-> None, default |-> Directive, value |-> Stored]


-----------------------------------------------------------------------------
(* Hook types and callbacks *)

\* HookType (browser)
BEFORE_COMPLETION == "before_completion"
AFTER_COMPLETION == "after_completion"
ON_ERROR == "on_error"
ON_STREAM_CHUNK == "on_stream_chunk"
HookType == {BEFORE_COMPLETION, AFTER_COMPLETION, ON_ERROR, ON_STREAM_CHUNK}

\* amplifier_core.events names used by the shim
PROVIDER_REQUEST == "events.PROVIDER_REQUEST"
PROVIDER_RESPONSE == "events.PROVIDER_RESPONSE"
PROVIDER_ERROR == "events.PROVIDER_ERROR"
ShimEvents == {PROVIDER_REQUEST, PROVIDER_RESPONSE, PROVIDER_ERROR}

\* the hook types of the registry a session of class k holds
HookTypesOf(k) == IF k = "browser" THEN HookType ELSE ShimEvents

\* a registered callback: whether it is a coroutine function and whether it raises
HookCallback == [is_async : BOOLEAN, raises : BOOLEAN]

\* exceptions; str(e) is e.msg
NoExc == [type |-> "none", msg |-> ""]
ProviderError == [type |-> "ProviderError", msg |-> "backend down"]
HookError(hook_type, i) == [type |-> "HookError", msg |-> hook_type, at |-> i]
\* asyncio.CancelledError, raised at an await when the task is cancelled
CancelledError == [type |-> "CancelledError", msg |-> ""]

\* `except Exception` catches it: CancelledError derives from BaseException
IsException(exc) == exc.type \in {"ProviderError", "HookError"}

-----------------------------------------------------------------------------
(* execute() calls *)

\* the execute() coroutines a session can have in flight
Calls == {1, 2}
\* the one a host uses when it runs its calls one after the other
SerialCalls == {1}

\* the prompt is opaque to the code: the n-th execute() of a session gets a
\* text of its own, so that the turns of different calls can be told apart
Prompts == <<"q1", "q2", "q3", "q4">>
Responses == {"ok"}

IdleCall ==
    [pc |-> "idle",
     prompt |-> None, stream |-> FALSE, on_chunk |-> FALSE,
     kind |-> None,          \* which emission is running: before / after / error,
                             \* or direct when emit() is called on its own
     hook_type |-> None, payload |-> [none |-> TRUE], i |-> 0,
     messages |-> <<>>,      \* local: the assembled request
     result |-> None,        \* local: the provider's result content
     e |-> NoExc,            \* local: the exception bound by `except Exception as e`
     outcome |-> NoExc,      \* the exception that reached the caller
     returned |-> None,      \* the value returned to the caller
     perr |-> NoExc,         \* observation: what the provider call raised
     cancelled |-> FALSE,    \* observation: the provider call was cancelled
     overlapped |-> FALSE,   \* observation: another execute() was in flight meanwhile
     thrown |-> <<>>,        \* observation: exceptions raised, with the position
     events |-> <<>>,        \* observation: the steps in the order they happened
     emits |-> <<>>,         \* observation: emit() calls, with the history then stored
     invoked |-> <<>>,       \* observation: callbacks run, with the history then stored
     cb_events |-> <<>>,     \* observation: callbacks starting and completing, in order
     provider_calls |-> <<>>,\* observation: provider operations invoked
     ctx0 |-> <<>>,          \* observation: context history after the user turn was recorded
     host0 |-> <<>>]         \* observation: host history after the user turn was recorded

\* no execute() is in flight
Quiescent == \A c \in Calls : call[c].pc \in {"idle", "returned", "raised"}

Finished(c) == call[c].pc \in {"returned", "raised"}

AllIdle == [c \in Calls |-> IdleCall]

\* where the call is inside the try block of execute()
InTry(r) ==
    \/ r.pc \in {"assemble", "invoke", "awaiting", "record_assistant", "emit_after", "return"}
    \/ r.pc = "in_emit" /\ r.kind = "after"

\* observation of exc raised at the call's current position
ThrownEntry(r, exc) ==
    [pc |-> r.pc, kind |-> r.kind, emit |-> Len(r.emits), exc |-> exc]

\* the call after exc is raised at its current position:
\* inside `try` an Exception is bound to e and the handler starts; anywhere
\* else (before the try, or inside the handler) it propagates to the caller
Thrown(r, exc) ==
    LET seen == [r EXCEPT !.thrown = Append(@, ThrownEntry(r, exc))]
    IN  IF InTry(r) /\ IsException(exc)
        THEN [seen EXCEPT !.pc = "emit_error", !.e = exc]
        ELSE [seen EXCEPT !.pc = "raised", !.outcome = exc]

\* the call after `await self.hooks.emit(...)` returned
EmitReturned(r) ==
    [r EXCEPT !.pc = CASE r.kind = "before" -> "assemble"
                       [] r.kind = "after" -> "return"
                       [] r.kind = "direct" -> "returned"
                       [] OTHER -> "reraise"]

\* the call at `await self.hooks.emit(hook_type, payload)`
EmitCalled(r, k, hook_type, payload, ev) ==
    [r EXCEPT !.pc = "in_emit", !.kind = k, !.hook_type = hook_type,
              !.payload = payload, !.i = 1,
              !.events = Append(@, ev),
              !.emits = Append(@, [type |-> hook_type, payload |-> payload,
                                   ctx |-> Stored])]


-----------------------------------------------------------------------------
(* A context manager driven directly *)

SessionUnchanged ==
    UNCHANGED <<cls, max_history, _max_messages, _hooks, system_prompt, history,
                _initialized, call, nexec>>

\* ContextManager.add_message(message)
Call_ContextManager_add_message(m) ==
    /\ cls = "browser"
    /\ Len(added) < MaxAdds
    /\ _history' = ContextManager_add_message(_history, max_history, m)
    /\ added' = Append(added, m)
    /\ ret' = NoRet
    /\ UNCHANGED <<_messages, _system_prompt>>
    /\ SessionUnchanged

\* ContextManager.get_messages(system_prompt)
Call_ContextManager_get_messages(p) ==
    /\ cls = "browser"
    /\ ret' = [op |-> "get_messages", arg |-> p, default |-> None,
               value |-> ContextManager_get_messages(_history, p)]
    /\ UNCHANGED <<_history, _messages, _system_prompt, added>>
    /\ SessionUnchanged

\* ContextManager.clear()
Call_ContextManager_clear ==
    /\ cls = "browser"
    /\ _history' = ContextManager_clear
    /\ added' = <<>>
    /\ ret' = ClearRet
    /\ UNCHANGED <<_messages, _system_prompt>>
    /\ SessionUnchanged

\* SimpleContextManager.add_message(message)
Call_SimpleContextManager_add_message(m) ==
    /\ cls = "shim"
    /\ Len(added) < MaxAdds
    /\ _messages' = SimpleContextManager_add_message(_messages, _max_messages, m)
    /\ added' = Append(added, m)
    /\ ret' = NoRet
    /\ UNCHANGED <<_history, _system_prompt>>
    /\ SessionUnchanged

\* faulty variant: assembling a request drops the system entries from the store
Call_SimpleContextManager_get_messages_for_request_consuming(p) ==
    /\ cls = "shim"
    /\ ret' = [op |-> "get_messages_for_request", arg |-> p,
               default |-> _system_prompt,
               value |-> SimpleContextManager_get_messages_for_request(
                             _messages, _system_prompt, p)]
    /\ _messages' = SelectSeq(_messages, NotSystem)
    /\ UNCHANGED <<_history, _system_prompt, added>>
    /\ SessionUnchanged

\* SimpleContextManager.get_messages_for_request(system_prompt)
Call_SimpleContextManager_get_messages_for_request(p) ==
    /\ cls = "shim"
    /\ ret' = [op |-> "get_messages_for_request", arg |-> p,
               default |-> _system_prompt,
               value |-> SimpleContextManager_get_messages_for_request(
                             _messages, _system_prompt, p)]
    /\ UNCHANGED <<_history, _messages, _system_prompt, added>>
    /\ SessionUnchanged

\* SimpleContextManager.clear()
Call_SimpleContextManager_clear ==
    /\ cls = "shim"
    /\ _messages' = SimpleContextManager_clear
    /\ added' = <<>>
    /\ ret' = ClearRet
    /\ UNCHANGED <<_history, _system_prompt>>
    /\ SessionUnchanged

\* SimpleContextManager.set_system_prompt(prompt)
Call_SimpleContextManager_set_system_prompt(t) ==
    /\ cls = "shim"
    /\ _system_prompt' = t
    /\ ret' = NoRet
    /\ UNCHANGED <<_history, _messages, added>>
    /\ SessionUnchanged

\* the bounds a context manager can be constructed with: the constructors
\* accept any integer
ConstructorBounds == (0 - 1) .. MaxBound

\* ContextManager(max_history=n) or SimpleContextManager(max_messages=n)
InitContext ==
    /\ cls \in {"browser", "shim"}
    /\ \E n \in ConstructorBounds :
          /\ max_history = (IF cls = "browser" THEN n ELSE 0)
          /\ _max_messages = (IF cls = "shim" THEN n ELSE 0)
    /\ _history = <<>>
    /\ _messages = <<>>
    /\ _system_prompt = None
    /\ _hooks = [t \in HookTypesOf(cls) |-> <<>>]
    /\ system_prompt = DEFAULT_SYSTEM_PROMPT
    /\ history = <<>>
    /\ _initialized = FALSE
    /\ call = AllIdle
    /\ nexec = 0
    /\ added = <<>>
    /\ ret = NoRet

NextContext ==
    \/ \E m \in Messages : Call_ContextManager_add_message(m)
    \/ \E p \in Directives : Call_ContextManager_get_messages(p)
    \/ Call_ContextManager_clear
    \/ \E m \in Messages : Call_SimpleContextManager_add_message(m)
    \/ \E p \in Directives : Call_SimpleContextManager_get_messages_for_request(p)
    \/ Call_SimpleContextManager_clear
    \/ \E t \in Directives \ {None} : Call_SimpleContextManager_set_system_prompt(t)

SpecContext == InitContext /\ [][NextContext]_vars


-----------------------------------------------------------------------------
(* Sessions: AmplifierBrowserSession (browser), BrowserAmplifierSession (shim) *)

\* faulty variant: the user turn is recorded without the prompt
UserMessage_blank(r) == Message(ROLE_USER, "")

\* the turns execute() builds
UserMessage(r) == Message(ROLE_USER, r.prompt)
AssistantMessage(r) == Message(ROLE_ASSISTANT, r.result)

\* faulty variant: the host-facing list is not appended to
SessionAddMessage_context_only(m) ==
    /\ IF cls = "browser"
       THEN /\ _history' = ContextManager_add_message(_history, max_history, m)
            /\ UNCHANGED <<_messages, history>>
       ELSE /\ _messages' = SimpleContextManager_add_message(_messages, _max_messages, m)
            /\ UNCHANGED <<_history, history>>
    /\ added' = Append(added, m)

\* self.context.add_message(m), and in the browser module self.history.append(...)
SessionAddMessage(m) ==
    /\ IF cls = "browser"
       THEN /\ _history' = ContextManager_add_message(_history, max_history, m)
            /\ history' = Append(history, [role |-> m.role, content |-> m.content])
            /\ UNCHANGED _messages
       ELSE /\ _messages' = SimpleContextManager_add_message(_messages, _max_messages, m)
            /\ UNCHANGED <<_history, history>>
    /\ added' = Append(added, m)

\* faulty variant: initialize() does not latch the initialized flag
Initialize_not_latched ==
    IF cls = "shim" /\ ~_initialized
    THEN /\ _system_prompt' = system_prompt
         /\ UNCHANGED _initialized
    ELSE UNCHANGED <<_system_prompt, _initialized>>

\* BrowserAmplifierSession.initialize(): a no-op once initialized
Initialize ==
    IF cls = "shim" /\ ~_initialized
    THEN /\ _system_prompt' = system_prompt
         /\ _initialized' = TRUE
    ELSE UNCHANGED <<_system_prompt, _initialized>>

\* the host calls execute(prompt, stream, on_chunk)
execute_call(c, prompt, stream, on_chunk) ==
    /\ Quiescent
    /\ nexec < MaxExecutes
    /\ nexec' = nexec + 1
    /\ call' = [AllIdle EXCEPT ![c] =
                   [IdleCall EXCEPT !.pc = IF cls = "shim" THEN "ensure_ready"
                                                           ELSE "record_user",
                                    !.prompt = prompt, !.stream = stream,
                                    !.on_chunk = on_chunk]]
    /\ UNCHANGED <<cls, max_history, _history, _max_messages, _messages,
                   _system_prompt, _hooks, system_prompt, history, _initialized,
                   added, ret>>

\* execute() (shim): if not self._initialized: await self.initialize()
execute_ensure_ready(c) ==
    /\ cls = "shim"
    /\ call[c].pc = "ensure_ready"
    /\ Initialize
    /\ call' = [call EXCEPT ![c] = [@ EXCEPT !.pc = "record_user"]]
    /\ ret' = NoRet
    /\ UNCHANGED <<cls, max_history, _history, _max_messages, _messages, _hooks,
                   system_prompt, history, nexec, added>>

\* execute(): record the user turn
execute_record_user(c) ==
    /\ call[c].pc = "record_user"
    /\ UNCHANGED <<cls, max_history, _max_messages, _system_prompt, _hooks,
                   system_prompt, _initialized, nexec>>
    /\ SessionAddMessage(UserMessage(call[c]))
    /\ call' = [call EXCEPT ![c] =
                   [@ EXCEPT !.pc = "emit_before",
                             !.events = Append(@, "record_user"),
                             !.ctx0 = Stored', !.host0 = history']]
    /\ ret' = NoRet

ContextUnchanged ==
    UNCHANGED <<cls, max_history, _history, _max_messages, _messages,
                _system_prompt, _hooks, system_prompt, history, _initialized,
                nexec, added, ret>>

\* execute(): await self.hooks.emit(<before request>, payload), outside the try
execute_emit_before(c) ==
    /\ call[c].pc = "emit_before"
    /\ call' = [call EXCEPT ![c] =
                   IF cls = "browser"
                   THEN EmitCalled(@, "before", BEFORE_COMPLETION,
                                   [prompt |-> @.prompt,
                                    history_length |-> Len(history)],
                                   "emit_before")
                   ELSE EmitCalled(@, "before", PROVIDER_REQUEST,
                                   [message |-> @.prompt], "emit_before")]
    /\ ContextUnchanged

\* observation: the callback at position r.i of the running emission starts or ends
CallbackEvent(r, ev) ==
    [emit |-> Len(r.emits), type |-> r.hook_type, index |-> r.i, ev |-> ev]

\* faulty variant: a raising callback is swallowed and the loop goes on
HookRegistry_callback_raised_swallowed(r, exc) ==
    [r EXCEPT !.thrown = Append(@, ThrownEntry(r, exc)), !.i = @ + 1]

\* HookRegistry.emit: a callback raised; nothing in emit catches it
HookRegistry_callback_raised(r, exc) == Thrown(r, exc)

\* HookRegistry.emit: the body of callback cb has run to its end: it raised,
\* or it returned and the loop moves to the next callback
HookRegistry_callback_done(r, cb) ==
    IF cb.raises
    THEN HookRegistry_callback_raised([r EXCEPT !.pc = "in_emit"],
                                      HookError(r.hook_type, r.i))
    ELSE [r EXCEPT !.pc = "in_emit", !.i = @ + 1,
                   !.cb_events = Append(@, CallbackEvent(r, "end"))]

\* faulty variant: the coroutine of an asynchronous callback is not awaited
HookRegistry_emit_invoke_not_awaited(r, cb) ==
    IF cb.is_async
    THEN [r EXCEPT !.i = @ + 1]
    ELSE HookRegistry_callback_done(r, cb)

\* HookRegistry.emit: `await callback(data)` for a coroutine function suspends
\* emit until the callback completes; any other callback runs inline
HookRegistry_emit_invoke(r, cb) ==
    IF cb.is_async
    THEN [r EXCEPT !.pc = "in_callback"]
    ELSE HookRegistry_callback_done(r, cb)

\* faulty variant: a callback that is registered a second time for the kind
\* is skipped
HookRegistry_emit_callback_deduplicating(c) ==
    /\ cls = "browser"
    /\ call[c].pc = "in_emit"
    /\ call[c].i <= Len(_hooks[call[c].hook_type])
    /\ LET r == call[c]
           cb == _hooks[r.hook_type][r.i]
           ran == [r EXCEPT !.invoked =
                       Append(@, [type |-> r.hook_type, index |-> r.i, cb |-> cb,
                                  payload |-> r.payload, ctx |-> Stored]),
                            !.cb_events = Append(@, CallbackEvent(r, "start"))]
       IN  call' = [call EXCEPT ![c] =
                       IF \E j \in 1 .. r.i - 1 : _hooks[r.hook_type][j] = cb
                       THEN [r EXCEPT !.i = @ + 1]
                       ELSE HookRegistry_emit_invoke(ran, cb)]
    /\ ContextUnchanged

\* HookRegistry.emit (browser): the next registered callback is invoked
HookRegistry_emit_callback(c) ==
    /\ cls = "browser"
    /\ call[c].pc = "in_emit"
    /\ call[c].i <= Len(_hooks[call[c].hook_type])
    /\ LET r == call[c]
           cb == _hooks[r.hook_type][r.i]
           ran == [r EXCEPT !.invoked =
                       Append(@, [type |-> r.hook_type, index |-> r.i, cb |-> cb,
                                  payload |-> r.payload, ctx |-> Stored]),
                            !.cb_events = Append(@, CallbackEvent(r, "start"))]
       IN  call' = [call EXCEPT ![c] = HookRegistry_emit_invoke(ran, cb)]
    /\ ContextUnchanged

\* HookRegistry.emit (browser): the awaited asynchronous callback completes
HookRegistry_callback_completes(c) ==
    /\ cls = "browser"
    /\ call[c].pc = "in_callback"
    /\ call' = [call EXCEPT ![c] =
                   HookRegistry_callback_done(@, _hooks[@.hook_type][@.i])]
    /\ ContextUnchanged

\* HookRegistry.emit (browser): no callback is left, emit returns
HookRegistry_emit_return(c) ==
    /\ cls = "browser"
    /\ call[c].pc = "in_emit"
    /\ call[c].i > Len(_hooks[call[c].hook_type])
    /\ call' = [call EXCEPT ![c] = EmitReturned(@)]
    /\ ContextUnchanged

\* amplifier_core's HookRegistry.emit (shim): an external collaborator.  The
\* call returns, or, when a registered handler raises, may let that failure out
external_emit(c, raises) ==
    /\ cls = "shim"
    /\ call[c].pc = "in_emit"
    /\ raises => \E j \in 1 .. Len(_hooks[call[c].hook_type]) :
                     _hooks[call[c].hook_type][j].raises
    /\ call' = [call EXCEPT ![c] =
                   IF raises
                   THEN Thrown(@, HookError(@.hook_type, 0))
                   ELSE EmitReturned(@)]
    /\ ContextUnchanged

\* the request the session assembles from its context
AssembleRequest ==
    IF cls = "browser"
    THEN ContextManager_get_messages(_history, system_prompt)
    ELSE SimpleContextManager_get_messages_for_request(
             _messages, _system_prompt, system_prompt)

\* execute(): messages = self.context.get_messages...(self.system_prompt)
execute_assemble(c) ==
    /\ call[c].pc = "assemble"
    /\ call' = [call EXCEPT ![c] =
                   [@ EXCEPT !.pc = "invoke", !.messages = AssembleRequest,
                             !.events = Append(@, "assemble")]]
    /\ ContextUnchanged

\* which provider operation execute() invokes
ProviderOperation(r) ==
    IF cls = "browser" /\ r.stream /\ r.on_chunk THEN "stream" ELSE "complete"

\* execute(): the provider operation is invoked and the call suspends on it
execute_invoke_provider(c) ==
    /\ call[c].pc = "invoke"
    /\ call' = [call EXCEPT ![c] =
                   [@ EXCEPT !.pc = "awaiting",
                             !.provider_calls =
                                 Append(@, [op |-> ProviderOperation(call[c]),
                                            messages |-> call[c].messages]),
                             !.events = Append(@, "provider")]]
    /\ ContextUnchanged

\* the awaited provider operation completes with a result
provider_returns(c, text) ==
    /\ call[c].pc = "awaiting"
    /\ call' = [call EXCEPT ![c] =
                   [@ EXCEPT !.pc = "record_assistant", !.result = text]]
    /\ ContextUnchanged

\* the awaited provider operation raises
provider_raises(c, exc) ==
    /\ call[c].pc = "awaiting"
    /\ call' = [call EXCEPT ![c] = Thrown([@ EXCEPT !.perr = exc], exc)]
    /\ ContextUnchanged

\* the host cancels the task while it is suspended on the provider operation
provider_cancelled(c) ==
    /\ call[c].pc = "awaiting"
    /\ call' = [call EXCEPT ![c] =
                   Thrown([@ EXCEPT !.cancelled = TRUE], CancelledError)]
    /\ ContextUnchanged

\* faulty variant: the assistant turn is not recorded before the after-request hook
execute_record_assistant_skipped(c) ==
    /\ call[c].pc = "record_assistant"
    /\ call' = [call EXCEPT ![c] =
                   [@ EXCEPT !.pc = "emit_after",
                             !.events = Append(@, "record_assistant")]]
    /\ ContextUnchanged

\* execute(): record the assistant turn
execute_record_assistant(c) ==
    /\ call[c].pc = "record_assistant"
    /\ SessionAddMessage(AssistantMessage(call[c]))
    /\ call' = [call EXCEPT ![c] =
                   [@ EXCEPT !.pc = "emit_after",
                             !.events = Append(@, "record_assistant")]]
    /\ ret' = NoRet
    /\ UNCHANGED <<cls, max_history, _max_messages, _system_prompt, _hooks,
                   system_prompt, _initialized, nexec>>

\* execute(): await self.hooks.emit(<after request>, payload), inside the try
execute_emit_after(c) ==
    /\ call[c].pc = "emit_after"
    /\ call' = [call EXCEPT ![c] =
                   EmitCalled(@, "after",
                              IF cls = "browser" THEN AFTER_COMPLETION
                                                 ELSE PROVIDER_RESPONSE,
                              [response |-> @.result, usage |-> "usage"],
                              "emit_after")]
    /\ ContextUnchanged

\* execute(): return the response text
execute_return(c) ==
    /\ call[c].pc = "return"
    /\ call' = [call EXCEPT ![c] =
                   [@ EXCEPT !.pc = "returned", !.returned = call[c].result,
                             !.events = Append(@, "return")]]
    /\ ContextUnchanged

\* execute(): except Exception as e: await self.hooks.emit(<on error>, {"error": str(e)})
execute_emit_on_error(c) ==
    /\ call[c].pc = "emit_error"
    /\ call' = [call EXCEPT ![c] =
                   EmitCalled(@, "error",
                              IF cls = "browser" THEN ON_ERROR ELSE PROVIDER_ERROR,
                              [error |-> @.e.msg], "emit_error")]
    /\ ContextUnchanged

\* execute(): the bare `raise` that ends the handler re-raises e
execute_reraise(c) ==
    /\ call[c].pc = "reraise"
    /\ call' = [call EXCEPT ![c] = [@ EXCEPT !.pc = "raised", !.outcome = call[c].e]]
    /\ ContextUnchanged

\* clear_history()
clear_history ==
    /\ Quiescent
    /\ IF cls = "browser"
       THEN /\ _history' = ContextManager_clear
            /\ history' = <<>>
            /\ UNCHANGED _messages
       ELSE /\ _messages' = <<>>
            /\ UNCHANGED <<_history, history>>
    /\ added' = <<>>
    /\ call' = AllIdle
    /\ ret' = ClearRet
    /\ UNCHANGED <<cls, max_history, _max_messages, _system_prompt, _hooks,
                   system_prompt, _initialized, nexec>>

\* faulty variant: the session does not track the new directive itself
set_system_prompt_untracked(t) ==
    /\ Quiescent
    /\ IF cls = "shim" THEN _system_prompt' = t ELSE UNCHANGED _system_prompt
    /\ call' = AllIdle
    /\ ret' = NoRet
    /\ UNCHANGED <<cls, max_history, _history, _max_messages, _messages, _hooks,
                   system_prompt, history, _initialized, nexec, added>>

\* set_system_prompt(prompt)
set_system_prompt(t) ==
    /\ Quiescent
    /\ system_prompt' = t
    /\ IF cls = "shim" THEN _system_prompt' = t ELSE UNCHANGED _system_prompt
    /\ call' = AllIdle
    /\ ret' = NoRet
    /\ UNCHANGED <<cls, max_history, _history, _max_messages, _messages, _hooks,
                   history, _initialized, nexec, added>>

\* the last call was initialize(): the state and the directive it met
InitializeRet ==
    [op |-> "initialize", arg |-> IF _initialized THEN "ready" ELSE "uninitialized",
     default |-> Directive, value |-> Stored]

\* BrowserAmplifierSession.initialize() called by the host
initialize ==
    /\ cls = "shim"
    /\ Quiescent
    /\ Initialize
    /\ call' = AllIdle
    /\ ret' = InitializeRet
    /\ UNCHANGED <<cls, max_history, _history, _max_messages, _messages, _hooks,
                   system_prompt, history, nexec, added>>

\* number of callbacks registered in a hook table
RECURSIVE CountOver(_, _)
CountOver(table, types) ==
    IF types = {} THEN 0
    ELSE LET t == CHOOSE x \in types : TRUE
         IN  Len(table[t]) + CountOver(table, types \ {t})

Registered(table) == CountOver(table, DOMAIN table)

\* session.hooks.register(hook_type, callback)
HookRegistry_register(hook_type, callback) ==
    /\ hook_type \in DOMAIN _hooks
    /\ Quiescent
    /\ Registered(_hooks) < MaxHooks
    /\ _hooks' = [_hooks EXCEPT ![hook_type] = Append(@, callback)]
    /\ call' = AllIdle
    /\ UNCHANGED <<cls, max_history, _history, _max_messages, _messages,
                   _system_prompt, system_prompt, history, _initialized, nexec,
                   added, ret>>

\* the callbacks a host registers on a session; a session runs one execute()
\* at a time, so a coroutine function behaves there as a plain one does
SessionCallbacks == {cb \in HookCallback : ~cb.is_async}

\* the hook types a session emits
EmittedHookTypes ==
    {BEFORE_COMPLETION, AFTER_COMPLETION, ON_ERROR,
     PROVIDER_REQUEST, PROVIDER_RESPONSE, PROVIDER_ERROR}

\* AmplifierBrowserSession(...) or BrowserAmplifierSession(...)
Init ==
    /\ cls \in {"browser", "shim"}
    /\ max_history = (IF cls = "browser" THEN SessionBound ELSE 0)
    /\ _max_messages = (IF cls = "shim" THEN SessionBound ELSE 0)
    /\ _history = <<>>
    /\ _messages = <<>>
    /\ _system_prompt = None
    /\ _hooks = [t \in HookTypesOf(cls) |-> <<>>]
    /\ system_prompt = DEFAULT_SYSTEM_PROMPT
    /\ history = <<>>
    /\ _initialized = FALSE
    /\ call = AllIdle
    /\ nexec = 0
    /\ added = <<>>
    /\ ret = NoRet

Next ==
    \/ \E c \in SerialCalls, stream \in BOOLEAN, on_chunk \in BOOLEAN :
          execute_call(c, Prompts[nexec + 1], stream, on_chunk)
    \/ \E c \in SerialCalls : execute_ensure_ready(c)
    \/ \E c \in SerialCalls : execute_record_user(c)
    \/ \E c \in SerialCalls : execute_emit_before(c)
    \/ \E c \in SerialCalls : HookRegistry_emit_callback(c)
    \/ \E c \in SerialCalls : HookRegistry_emit_return(c)
    \/ \E c \in SerialCalls, raises \in BOOLEAN : external_emit(c, raises)
    \/ \E c \in SerialCalls : execute_assemble(c)
    \/ \E c \in SerialCalls : execute_invoke_provider(c)
    \/ \E c \in SerialCalls, text \in Responses : provider_returns(c, text)
    \/ \E c \in SerialCalls : provider_raises(c, ProviderError)
    \/ \E c \in SerialCalls : provider_cancelled(c)
    \/ \E c \in SerialCalls : execute_record_assistant(c)
    \/ \E c \in SerialCalls : execute_emit_after(c)
    \/ \E c \in SerialCalls : execute_return(c)
    \/ \E c \in SerialCalls : execute_emit_on_error(c)
    \/ \E c \in SerialCalls : execute_reraise(c)
    \/ clear_history
    \/ \E t \in {"", "p"} : set_system_prompt(t)
    \/ initialize
    \/ \E t \in EmittedHookTypes, cb \in SessionCallbacks : HookRegistry_register(t, cb)

Spec == Init /\ [][Next]_vars

-----------------------------------------------------------------------------
(* Two execute() calls of one session as tasks of one event loop *)

\* each call's provider result, so that the turns of the calls can be told apart
CallResponses == <<"ok1", "ok2">>

InFlight(r) == r.pc \notin {"idle", "returned", "raised"}

\* a coroutine gives up the event loop only at an await that suspends: the
\* provider operation and an asynchronous callback
AtSuspension(r) ==
    r.pc \in {"idle", "returned", "raised", "awaiting", "in_callback"}

\* call c can take a step: no other call is in the middle of a synchronous stretch
Runs(c) == \A d \in Calls \ {c} : AtSuspension(call[d])

\* a task calls execute(prompt, stream, on_chunk), possibly while another
\* execute() is suspended; the calls are numbered in the order they start
execute_call_interleaved(c, prompt, stream, on_chunk) ==
    /\ call[c].pc = "idle"
    /\ \A d \in Calls : d < c => call[d].pc # "idle"
    /\ Runs(c)
    /\ nexec < MaxExecutes
    /\ nexec' = nexec + 1
    /\ LET meanwhile == \E d \in Calls \ {c} : InFlight(call[d])
       IN  call' = [d \in Calls |->
                       IF d = c
                       THEN [IdleCall EXCEPT !.pc = IF cls = "shim" THEN "ensure_ready"
                                                                   ELSE "record_user",
                                             !.prompt = prompt, !.stream = stream,
                                             !.on_chunk = on_chunk,
                                             !.overlapped = meanwhile]
                       ELSE IF InFlight(call[d])
                            THEN [call[d] EXCEPT !.overlapped = TRUE]
                            ELSE call[d]]
    /\ UNCHANGED <<cls, max_history, _history, _max_messages, _messages,
                   _system_prompt, _hooks, system_prompt, history, _initialized,
                   added, ret>>

NextInterleaved ==
    \/ \E c \in Calls, stream \in BOOLEAN :
          execute_call_interleaved(c, Prompts[nexec + 1], stream, FALSE)
    \/ \E c \in Calls : Runs(c) /\ execute_ensure_ready(c)
    \/ \E c \in Calls : Runs(c) /\ execute_record_user(c)
    \/ \E c \in Calls : Runs(c) /\ execute_emit_before(c)
    \/ \E c \in Calls : Runs(c) /\ HookRegistry_emit_callback(c)
    \/ \E c \in Calls : Runs(c) /\ HookRegistry_callback_completes(c)
    \/ \E c \in Calls : Runs(c) /\ HookRegistry_emit_return(c)
    \/ \E c \in Calls, raises \in BOOLEAN : Runs(c) /\ external_emit(c, raises)
    \/ \E c \in Calls : Runs(c) /\ execute_assemble(c)
    \/ \E c \in Calls : Runs(c) /\ execute_invoke_provider(c)
    \/ \E c \in Calls : Runs(c) /\ provider_returns(c, CallResponses[c])
    \/ \E c \in Calls : Runs(c) /\ provider_raises(c, ProviderError)
    \/ \E c \in Calls : Runs(c) /\ execute_record_assistant(c)
    \/ \E c \in Calls : Runs(c) /\ execute_emit_after(c)
    \/ \E c \in Calls : Runs(c) /\ execute_return(c)
    \/ \E c \in Calls : Runs(c) /\ execute_emit_on_error(c)
    \/ \E c \in Calls : Runs(c) /\ execute_reraise(c)
    \/ \E t \in EmittedHookTypes, cb \in HookCallback :
          /\ nexec = 0
          /\ Registered(_hooks) < MaxInterleavedHooks
          /\ HookRegistry_register(t, cb)

SpecInterleaved == Init /\ [][NextInterleaved]_vars

-----------------------------------------------------------------------------
(* A HookRegistry (browser) driven directly *)

\* the data passed to emit()
Payloads == {[data |-> "x"], [data |-> "y"]}

\* await registry.emit(hook_type, data), called on its own
Call_HookRegistry_emit(c, hook_type, data) ==
    /\ Quiescent
    /\ call' = [AllIdle EXCEPT ![c] =
                   EmitCalled(IdleCall, "direct", hook_type, data, "emit")]
    /\ ContextUnchanged

\* HookRegistry()
InitHooks ==
    /\ cls = "browser"
    /\ max_history = SessionBound
    /\ _max_messages = 0
    /\ _history = <<>>
    /\ _messages = <<>>
    /\ _system_prompt = None
    /\ _hooks = [t \in HookType |-> <<>>]
    /\ system_prompt = DEFAULT_SYSTEM_PROMPT
    /\ history = <<>>
    /\ _initialized = FALSE
    /\ call = AllIdle
    /\ nexec = 0
    /\ added = <<>>
    /\ ret = NoRet

NextHooks ==
    \/ \E t \in HookType, cb \in HookCallback : HookRegistry_register(t, cb)
    \/ \E c \in SerialCalls, t \in HookType, data \in Payloads :
          Call_HookRegistry_emit(c, t, data)
    \/ \E c \in SerialCalls : HookRegistry_emit_callback(c)
    \/ \E c \in SerialCalls : HookRegistry_callback_completes(c)
    \/ \E c \in SerialCalls : HookRegistry_emit_return(c)

SpecHooks == InitHooks /\ [][NextHooks]_vars

-----------------------------------------------------------------------------
(* Helpers of the claims *)

Min(a, b) == IF a < b THEN a ELSE b

\* the last n elements of s, for 0 <= n <= Len(s)
LastN(s, n) == [j \in 1 .. n |-> s[Len(s) - n + j]]

IsSuffix(t, s) ==
    /\ Len(t) <= Len(s)
    /\ \A j \in 1 .. Len(t) : t[j] = s[Len(s) - Len(t) + j]

SystemCount(s) == Len(SelectSeq(s, IsSystem))

-----------------------------------------------------------------------------
(* Claims about the context managers, checked under SpecContext *)

\* C6: ContextManager with max_history >= 0: after every add_message and
\* clear call, len(_history) <= max_history.
C6_NaiveHistoryBound ==
    (cls = "browser" /\ max_history >= 0) => Len(_history) <= max_history

\* C7: SimpleContextManager: after every add_message call the number of
\* stored messages is <= max_messages whenever the number of stored
\* system-role messages is <= max_messages.
C7_RoleAwareHistoryBound ==
    (cls = "shim" /\ SystemCount(_messages) <= _max_messages)
        => Len(_messages) <= _max_messages

\* C8: SimpleContextManager.add_message keeps every system-role message
\* (those stored before and the new one), and the non-system messages that
\* remain are a suffix of the non-system messages in insertion order.
C8_SystemRetainedNewestKept ==
    cls = "shim" =>
        /\ SelectSeq(_messages, IsSystem) = SelectSeq(added, IsSystem)
        /\ IsSuffix(SelectSeq(_messages, NotSystem), SelectSeq(added, NotSystem))

\* C8 witness: a trim has happened that dropped a non-system message while a
\* system message and a newer non-system message are stored.
C8_Witness ==
    /\ cls = "shim"
    /\ _max_messages >= 2
    /\ Len(_messages) = _max_messages
    /\ Len(_messages) < Len(added)
    /\ SystemCount(_messages) >= 1
    /\ Len(_messages) > SystemCount(_messages)

\* C9: ContextManager with max_history = N: the stored history equals the
\* last min(k, N) of the k messages added since the last clear, in insertion
\* order, whatever their roles.
C9_NaiveKeepsMostRecent ==
    (cls = "browser" /\ max_history >= 0)
        => _history = LastN(added, Min(Len(added), max_history))

\* C10: the sequence assembled for a provider request has a system-role first
\* element iff the argument p or the stored default is non-empty, and no
\* element other than the first has role system.
C10_DirectivePlacement ==
    ret.op \in {"get_messages", "get_messages_for_request"} =>
        /\ (Len(ret.value) >= 1 /\ IsSystem(ret.value[1]))
              <=> (Truthy(ret.arg) \/ Truthy(ret.default))
        /\ \A j \in 2 .. Len(ret.value) : ~IsSystem(ret.value[j])

\* the elements of s after the first
Tail1(s) == SubSeq(s, 2, Len(s))

\* C11: SimpleContextManager.get_messages_for_request(p) with a non-empty p
\* returns system p first even when a different default is stored; with no or
\* empty p and a non-empty stored default d it returns system d first; in both
\* cases the rest is exactly the stored non-system entries in stored order.
C11_ExplicitOverridesDefault ==
    (ret.op = "get_messages_for_request"
         /\ (Truthy(ret.arg) \/ Truthy(ret.default))) =>
        /\ Len(ret.value) >= 1
        /\ ret.value[1] = Message(ROLE_SYSTEM,
                                  IF Truthy(ret.arg) THEN ret.arg ELSE ret.default)
        /\ Tail1(ret.value) = SelectSeq(_messages, NotSystem)

\* C11 witness: an explicit directive was given while a different non-empty
\* default is stored, and the history holds system and non-system entries.
C11_Witness ==
    /\ ret.op = "get_messages_for_request"
    /\ ret.arg = "p"
    /\ ret.default = "d"
    /\ SystemCount(_messages) >= 1
    /\ Len(_messages) > SystemCount(_messages)

\* the request assembled with no explicit directive (the browser module's
\* session always passes its own)
AssembledWithDefault ==
    IF cls = "browser"
    THEN ContextManager_get_messages(_history, system_prompt)
    ELSE SimpleContextManager_get_messages_for_request(_messages, _system_prompt, None)

\* C15: after clear() on a context manager, or clear_history() on a session,
\* the stored history is empty and the system directive is unchanged, so the
\* next request assembled with no explicit directive is empty, or is exactly
\* one system element carrying the default set before.
C15_ClearKeepsDirective ==
    ret.op = "clear" =>
        /\ Stored = <<>>
        /\ history = <<>>
        /\ Directive = ret.default
        /\ AssembledWithDefault
               = (IF Truthy(ret.default)
                  THEN <<Message(ROLE_SYSTEM, ret.default)>> ELSE <<>>)

\* C15 witness: a SimpleContextManager holding system and non-system entries
\* and a non-empty default was cleared.
C15_Witness ==
    /\ ret.op = "clear"
    /\ cls = "shim"
    /\ Truthy(ret.default)
    /\ SystemCount(ret.value) >= 1
    /\ Len(ret.value) > SystemCount(ret.value)

\* the bound the context manager under verification was constructed with
Bound == IF cls = "browser" THEN max_history ELSE _max_messages

\* C19: constructing a context manager with a negative bound is rejected at
\* construction, so no add_message ever runs against a negative bound.
C19_NegativeBoundRejected ==
    Len(added) >= 1 => Bound >= 0

\* t can be obtained from s by deleting elements
RECURSIVE IsSubsequence(_, _)
IsSubsequence(t, s) ==
    IF t = <<>> THEN TRUE
    ELSE IF s = <<>> THEN FALSE
    ELSE IF Head(t) = Head(s) THEN IsSubsequence(Tail(t), Tail(s))
    ELSE IsSubsequence(t, Tail(s))

\* C20: after any sequence of add_message calls, trimming ones included, the
\* stored history of ContextManager and of SimpleContextManager is a
\* subsequence of the messages in the order they were added.
C20_StoredInInsertionOrder ==
    IsSubsequence(Stored, added)

\* what assembling a request with argument p returns in the current state
Assembled(p) ==
    IF cls = "browser"
    THEN ContextManager_get_messages(_history, p)
    ELSE SimpleContextManager_get_messages_for_request(_messages, _system_prompt, p)

\* C21: get_messages_for_request (shim) and get_messages (browser) leave the
\* stored history, the bound and the stored default directive unchanged, and
\* calling them again with the same argument and no mutation in between
\* returns an equal sequence.
C21_AssemblingIsReadOnly ==
    [][\A p \in Directives :
          (Call_ContextManager_get_messages(p)
              \/ Call_SimpleContextManager_get_messages_for_request(p))
            => /\ UNCHANGED <<_history, _messages, _system_prompt, max_history,
                              _max_messages>>
               /\ ret'.arg = p
               /\ Assembled(p)' = ret'.value]_vars

\* C21 witness: get_messages_for_request returned a directive and history
\* entries from a store that also holds system entries.
C21_Witness ==
    /\ ret.op = "get_messages_for_request"
    /\ Len(ret.value) >= 2
    /\ IsSystem(ret.value[1])
    /\ SystemCount(_messages) >= 1

-----------------------------------------------------------------------------
(* Claims about execute(), checked under Spec *)

UserTurn(r) == [role |-> "user", content |-> r.prompt]
AssistantTurn(r) == [role |-> "assistant", content |-> r.result]

EndsWith(s, m) == Len(s) >= 1 /\ s[Len(s)] = m

IsErrorEmit(x) == x.type \in {ON_ERROR, PROVIDER_ERROR}
ErrorEmits(r) == SelectSeq(r.emits, IsErrorEmit)

\* the call recorded nothing after its user turn
NoAssistantRecorded(r) ==
    /\ Stored = r.ctx0
    /\ cls = "browser" => history = r.host0

\* an exception was raised inside the emission of the given kind
RaisedInEmit(r, k) ==
    \E j \in 1 .. Len(r.thrown) : r.thrown[j].pc = "in_emit" /\ r.thrown[j].kind = k

\* C1: when the provider call raises, after execute ends the user message of
\* this call is still in the context history, no assistant message was
\* appended, on-error was emitted exactly once with {error: <provider's error
\* text>}, and the exception that reaches the caller is the provider's error.
C1_ProviderFailureIsolatesTurn ==
    \A c \in Calls :
        (Finished(c) /\ call[c].perr # NoExc) =>
            /\ EndsWith(Stored, UserTurn(call[c]))
            /\ NoAssistantRecorded(call[c])
            /\ Len(ErrorEmits(call[c])) = 1
            /\ ErrorEmits(call[c])[1].payload = [error |-> call[c].perr.msg]
            /\ call[c].pc = "raised"
            /\ call[c].outcome = call[c].perr

ExecuteOrder ==
    <<"record_user", "emit_before", "assemble", "provider", "record_assistant",
      "emit_after", "return">>

\* C2: in an execute() that completes successfully the steps happen in this
\* order, once each: user turn recorded, before-request emitted, request
\* assembled, provider invoked, assistant turn recorded, after-request
\* emitted, text returned; the before-request emission and its callbacks see
\* the user turn in the history, the after-request ones see the assistant turn.
C2_ExecuteStepsInOrder ==
    \A c \in Calls :
        call[c].pc = "returned" =>
            LET r == call[c] IN
            /\ r.events = ExecuteOrder
            /\ Len(r.emits) = 2
            /\ r.emits[1].type \in {BEFORE_COMPLETION, PROVIDER_REQUEST}
            /\ EndsWith(r.emits[1].ctx, UserTurn(r))
            /\ r.emits[2].type \in {AFTER_COMPLETION, PROVIDER_RESPONSE}
            /\ EndsWith(r.emits[2].ctx, AssistantTurn(r))
            /\ \A j \in 1 .. Len(r.invoked) :
                  /\ r.invoked[j].type = BEFORE_COMPLETION
                        => EndsWith(r.invoked[j].ctx, UserTurn(r))
                  /\ r.invoked[j].type = AFTER_COMPLETION
                        => EndsWith(r.invoked[j].ctx, AssistantTurn(r))
            /\ Len(r.provider_calls) = 1
            /\ EndsWith(r.provider_calls[1].messages, UserTurn(r))
            /\ EndsWith(Stored, AssistantTurn(r))
            /\ r.returned = r.result

\* C2 witness: a browser execute() returned after a before-request and an
\* after-request callback ran.
C2_Witness ==
    \E c \in Calls :
        /\ call[c].pc = "returned"
        /\ cls = "browser"
        /\ Len(call[c].invoked) = 2

\* C3: a failure raised inside a before-request hook callback short-circuits
\* the remaining steps (provider never invoked, no assistant message
\* appended), and on-error is emitted with {error} before the failure
\* propagates to the caller.
C3_BeforeHookFailureEmitsOnError ==
    \A c \in Calls :
        (Finished(c) /\ RaisedInEmit(call[c], "before")) =>
            /\ call[c].pc = "raised"
            /\ call[c].provider_calls = <<>>
            /\ NoAssistantRecorded(call[c])
            /\ Len(ErrorEmits(call[c])) = 1

\* C4: if execute() is failing with an original error E and a callback of
\* the on-error emission raises E2, then E2 is swallowed and the error that
\* propagates to the caller is E.
C4_OnErrorFailureDoesNotMask ==
    \A c \in Calls :
        (Finished(c) /\ RaisedInEmit(call[c], "error")) =>
            /\ call[c].pc = "raised"
            /\ call[c].outcome = call[c].e

\* C5: an execute() that ends by raising, whatever the failing stage, leaves
\* no assistant message appended by that call in the context history nor in
\* the host-facing history list.
C5_NoAssistantOnFailure ==
    \A c \in Calls : call[c].pc = "raised" => NoAssistantRecorded(call[c])

-----------------------------------------------------------------------------
(* Claims about HookRegistry.emit, checked under SpecHooks *)

\* the callback events of emission n of a call
OfEmission(r, n) == SelectSeq(r.cb_events, LAMBDA x : x.emit = n)

\* the events of an emission in which callbacks 1..k ran one after the other,
\* each completing before the next starts
RanInTurn(k) ==
    [j \in 1 .. 2 * k |-> [index |-> (j + 1) \div 2,
                           ev |-> IF j % 2 = 1 THEN "start" ELSE "end"]]

IndexEv(s) == [j \in 1 .. Len(s) |-> [index |-> s[j].index, ev |-> s[j].ev]]

\* C12: emit invokes the callbacks registered for the kind in registration
\* order, one at a time: whenever callback B registered after A starts, A has
\* completed (an asynchronous A has been awaited to its end); the events of an
\* emission are start 1, end 1, start 2, end 2, ...
C12_CallbacksInRegistrationOrder ==
    \A c \in Calls :
        LET r == call[c]
            ev == IndexEv(OfEmission(r, Len(r.emits)))
        IN  Len(r.emits) >= 1 =>
               \E k \in 0 .. Len(_hooks[r.hook_type]) :
                   \/ ev = RanInTurn(k)
                   \/ k >= 1 /\ ev = SubSeq(RanInTurn(k), 1, 2 * k - 1)

\* C12 witness: the second callback of an emission has started after an
\* asynchronous first callback.
C12_Witness ==
    \E c \in Calls :
        /\ Len(call[c].cb_events) >= 3
        /\ call[c].cb_events[3].index = 2
        /\ _hooks[call[c].hook_type][1].is_async

\* C13: if the i-th callback of an emission raises, callbacks 1..i-1 have run
\* to their end, no callback after the i-th is invoked for that emission, and
\* the failure leaves emit and reaches its caller.
C13_FailingCallbackAbortsEmission ==
    \A c \in Calls :
        \A j \in 1 .. Len(call[c].thrown) :
            LET r == call[c]
                t == r.thrown[j]
            IN  t.exc.type = "HookError" =>
                   /\ IndexEv(OfEmission(r, t.emit))
                          = SubSeq(RanInTurn(t.exc.at), 1, 2 * t.exc.at - 1)
                   /\ r.kind = "direct" => (r.pc = "raised" /\ r.outcome = t.exc)

\* C13 witness: the first of two callbacks registered for the kind raised
\* during an emission.
C13_Witness ==
    \E c \in Calls :
        /\ call[c].pc = "raised"
        /\ call[c].kind = "direct"
        /\ call[c].outcome.type = "HookError"
        /\ call[c].outcome.at = 1
        /\ Len(_hooks[call[c].hook_type]) = 2

-----------------------------------------------------------------------------
(* Further claims about the sessions, checked under Spec *)

\* C14: execute(prompt, stream, on_chunk) invokes the provider's stream
\* operation iff stream is requested and on_chunk is supplied, otherwise its
\* complete operation, and invokes at most one provider operation, at most
\* once; in both session classes.
C14_ProviderSelection ==
    \A c \in Calls :
        LET r == call[c] IN
        /\ Len(r.provider_calls) <= 1
        /\ \A j \in 1 .. Len(r.provider_calls) :
              r.provider_calls[j].op
                  = (IF r.stream /\ r.on_chunk THEN "stream" ELSE "complete")

\* C16: if the suspended provider call inside execute() is cancelled, the
\* session treats it like a provider error: it emits on-error once, records
\* no assistant message, and propagates the cancellation to the caller.
C16_CancellationIsFailurePath ==
    \A c \in Calls :
        (Finished(c) /\ call[c].cancelled) =>
            /\ Len(ErrorEmits(call[c])) = 1
            /\ NoAssistantRecorded(call[c])
            /\ call[c].pc = "raised"
            /\ call[c].outcome = CancelledError

\* the state of a shim session apart from the execute() calls
SessionState ==
    <<_max_messages, _messages, _system_prompt, _hooks, system_prompt, history,
      _initialized>>

\* an execute() is past its initialization check
RunningSteps(c) == call[c].pc \notin {"idle", "ensure_ready"}

\* C17: BrowserAmplifierSession starts Uninitialized; initialize() moves it
\* to Ready; once Ready it never returns to Uninitialized; a further
\* initialize() changes no state, the context's system directive included;
\* and execute() runs its steps only in the Ready state, initializing first
\* if needed.
C17_InitializeOneWayIdempotent ==
    /\ (cls = "shim" => ~_initialized)
    /\ [](cls = "shim" =>
            /\ \A c \in Calls : RunningSteps(c) => _initialized
            /\ ret.op = "initialize" =>
                  (_initialized /\ (ret.arg = "ready" => Directive = ret.default)))
    /\ [][cls = "shim" =>
            /\ _initialized => _initialized'
            /\ (initialize \/ \E c \in Calls : execute_ensure_ready(c))
                  => (_initialized' /\ (_initialized => UNCHANGED SessionState))]_vars

\* C17 witness: initialize() was called on a Ready shim session that holds a
\* conversation and a directive set by set_system_prompt.
C17_Witness ==
    /\ cls = "shim"
    /\ ret.op = "initialize"
    /\ ret.arg = "ready"
    /\ ret.default = "p"
    /\ Len(_messages) >= 2

\* C18: set_system_prompt(t) with a non-empty t leaves the stored history
\* unchanged and makes t the session's tracked default and, in the shim, the
\* context manager's default; the message sequence the next execute() submits
\* to the provider starts with a system message whose content is t.
C18_SetSystemPromptReplacesDirective ==
    /\ [](\A c \in Calls :
            \A j \in 1 .. Len(call[c].provider_calls) :
                Truthy(system_prompt) =>
                    call[c].provider_calls[j].messages[1]
                        = Message(ROLE_SYSTEM, system_prompt))
    /\ [][\A t \in {"p"} :
            set_system_prompt(t) =>
                /\ UNCHANGED <<_history, _messages, history>>
                /\ system_prompt' = t
                /\ cls = "shim" => _system_prompt' = t]_vars

\* C18 witness: the second execute() of a session submits a request that
\* starts with the directive set by set_system_prompt and carries the earlier turns.
C18_Witness ==
    \E c \in Calls :
        /\ call[c].pc = "awaiting"
        /\ Len(call[c].provider_calls) = 1
        /\ call[c].provider_calls[1].messages
               = <<Message(ROLE_SYSTEM, "p"), Message(ROLE_USER, "q1"),
                   Message(ROLE_ASSISTANT, "ok"), Message(ROLE_USER, "q2")>>

-----------------------------------------------------------------------------
(* A further claim about HookRegistry.emit, checked under SpecHooks *)

\* the callbacks a call has had invoked, in order
InvokedCallbacks(r) == [j \in 1 .. Len(r.invoked) |-> r.invoked[j].cb]

\* C22: emit(kind, payload) invokes each callback once per time it was
\* registered for kind (one registered twice runs twice), passes it the
\* payload unchanged, invokes no callback registered only for another kind,
\* and with nothing registered for kind invokes nothing and completes
\* without error.
C22_EmitScopedNoDeduplication ==
    \A c \in Calls :
        LET r == call[c] IN
        r.kind = "direct" =>
            /\ \A j \in 1 .. Len(r.invoked) :
                  /\ r.invoked[j].type = r.emits[1].type
                  /\ r.invoked[j].payload = r.emits[1].payload
                  /\ r.invoked[j].cb = _hooks[r.emits[1].type][j]
            /\ r.pc = "returned" => InvokedCallbacks(r) = _hooks[r.emits[1].type]
            /\ (_hooks[r.emits[1].type] = <<>> /\ Finished(c)) => r.pc = "returned"

\* C22 witness: an emission returned after running a callback registered
\* twice for the kind.
C22_Witness ==
    \E c \in Calls :
        /\ call[c].kind = "direct"
        /\ call[c].pc = "returned"
        /\ Len(call[c].invoked) = 2
        /\ call[c].invoked[1].cb = call[c].invoked[2].cb

-----------------------------------------------------------------------------
(* Further claims about the sessions, checked under Spec *)

IsBeforeEmit(x) == x.type = BEFORE_COMPLETION

\* C23: in AmplifierBrowserSession, after any sequence of execute() calls
\* (successful or failing at any stage) and clear_history() calls, the
\* context manager's bounded history is a suffix of the session's
\* host-facing history list, the two are equal whenever fewer than
\* max_history messages have been recorded since the last clear, and the
\* history_length of the before-completion payload is the length of the
\* host-facing list including the user turn just recorded.
C23_HistoryStoresConsistent ==
    cls = "browser" =>
        /\ IsSuffix(_history, history)
        /\ Len(history) < max_history => _history = history
        /\ Len(history) = Len(added)
        /\ \A c \in Calls :
              \A j \in 1 .. Len(call[c].emits) :
                  IsBeforeEmit(call[c].emits[j]) =>
                      /\ call[c].emits[j].payload.history_length
                             = Len(call[c].host0)
                      /\ EndsWith(call[c].host0, UserTurn(call[c]))

\* C23 witness: a second execute() returned after the context manager
\* trimmed its history, so the host-facing list is longer.
C23_Witness ==
    \E c \in Calls :
        /\ cls = "browser"
        /\ call[c].pc = "returned"
        /\ Len(history) = 4
        /\ Len(_history) = max_history
        /\ Len(_history) < Len(history)

-----------------------------------------------------------------------------
(* Claims about interleaved execute() calls, checked under SpecInterleaved *)

\* in h, the user turn of call r is immediately followed by its assistant turn
PairedIn(h, r) ==
    \A j \in 1 .. Len(h) :
        h[j] = UserTurn(r) => (j < Len(h) /\ h[j + 1] = AssistantTurn(r))

Paired(r) == PairedIn(Stored, r) /\ PairedIn(history, r)

\* every request the call submitted ends with its own user message
SubmitsOwnTurn(r) ==
    \A j \in 1 .. Len(r.provider_calls) :
        EndsWith(r.provider_calls[j].messages, UserTurn(r))

BothReturned == \A c \in Calls : call[c].pc = "returned"

\* C24 as stated: for any interleaving of two execute() calls on the same
\* session at their suspension points, (i) the message sequence each call
\* submits to the provider ends with that call's own user message, and (ii)
\* once both calls have returned, each call's user turn in the history is
\* immediately followed by that same call's assistant turn.
C24_TurnPairingUnderInterleaving ==
    /\ \A c \in Calls : SubmitsOwnTurn(call[c])
    /\ BothReturned => \A c \in Calls : Paired(call[c])

\* C24 amended: (i) and (ii) hold for two execute() calls that do not overlap,
\* the second starting after the first has ended.
C24_TurnPairingWhenSerialized ==
    /\ \A c \in Calls : ~call[c].overlapped => SubmitsOwnTurn(call[c])
    /\ (BothReturned /\ \A c \in Calls : ~call[c].overlapped)
          => \A c \in Calls : Paired(call[c])

\* C24 witness: two execute() calls of a browser session returned one after
\* the other, each having run a before-request callback.
C24_Witness ==
    /\ cls = "browser"
    /\ BothReturned
    /\ \A c \in Calls : ~call[c].overlapped /\ Len(call[c].invoked) >= 1
    /\ Len(history) = 4

====
